---------------------------- MODULE Spec2Model ----------------------------
(***************************************************************************)
(* Model of process_pdf_tables.py: the line parser parse_lines and the     *)
(* batch run main / process_pdf.                                           *)
(*                                                                         *)
(* A Python str is a sequence of one-character strings.  Indices into      *)
(* Python lists are kept 0-based (email_idx, postal_idx), with At and      *)
(* Slice giving tokens[i] and tokens[a:b].  A dict is the sequence of its  *)
(* <<key, value>> pairs in insertion order.                                *)
(***************************************************************************)
EXTENDS Integers, Sequences, FiniteSets, TLC

VARIABLES
    \* one call parse_lines(text, page_idx, columns) and what it returns
    text, rows,
    \* shared by parse_lines and process_pdf
    page_idx, columns,
    \* position of the program
    pc,
    \* the file system: the directory "input", the directory "output"
    \* ("absent", "present" before the run, or "created" by it), its files
    input_dir, output_dir, files,
    \* args.columns, the string given as --columns
    args_columns,
    \* main: the globbed list, the position of its for loop, the exit status
    pdf_files, file_idx, exit_status,
    \* process_pdf: pdf.page_count, all_rows, df
    page_count, all_rows, df,
    \* what the run has done so far: the PDFs opened, the number of pages
    \* rasterized, the texts recognized on the pages of the PDF last opened,
    \* the output files written, and the 1-based position in pdf_files of
    \* the PDF at which opening, rasterizing or recognizing failed (0: none)
    opened, rasterized, recognized, written, failed_at

\* ------------------------------------------------------------------------
\* Python str and list primitives
\* ------------------------------------------------------------------------

\* the None of next(..., None)
None == -1

\* tokens[i], a negative i counting from the end
At(s, i) == IF i < 0 THEN s[Len(s) + i + 1] ELSE s[i + 1]

Min(a, b) == IF a < b THEN a ELSE b
Max(a, b) == IF a > b THEN a ELSE b

\* s[a:b] for 0 <= a, with b clipped to len(s) and negative b counted from the end
Slice(s, a, b) ==
    LET hi == IF b < 0 THEN Max(Len(s) + b, 0) ELSE Min(b, Len(s))
    IN  IF a >= hi THEN <<>> ELSE SubSeq(s, a + 1, hi)

\* s[a:]
SliceFrom(s, a) == Slice(s, a, Len(s))

\* characters str.strip() and str.split() treat as whitespace
Whitespace == {" ", "\t", "\n", "\r", "\f"}

\* characters at which str.splitlines() breaks
LineBreaks == {"\n", "\r", "\f"}

Digits == {"0", "1", "2", "3", "4", "5", "6", "7", "8", "9"}

UpperCase == <<"A","B","C","D","E","F","G","H","I","J","K","L","M",
               "N","O","P","Q","R","S","T","U","V","W","X","Y","Z">>
LowerCase == <<"a","b","c","d","e","f","g","h","i","j","k","l","m",
               "n","o","p","q","r","s","t","u","v","w","x","y","z">>

\* str.lower() of one character
LowerChar(c) ==
    IF \E i \in 1..26 : UpperCase[i] = c
    THEN LowerCase[CHOOSE i \in 1..26 : UpperCase[i] = c]
    ELSE c

\* str.lower()
Lower(s) == [i \in 1..Len(s) |-> LowerChar(s[i])]

\* str.startswith(prefix)
StartsWith(s, prefix) ==
    /\ Len(s) >= Len(prefix)
    /\ SubSeq(s, 1, Len(prefix)) = prefix

\* the k-th smallest element of a set of numbers
NthOf(S, k) == CHOOSE i \in S : Cardinality({ j \in S : j < i }) = k - 1

\* str.strip(): from the first to the last character that is no whitespace
Strip(s) ==
    IF \A i \in 1..Len(s) : s[i] \in Whitespace THEN <<>>
    ELSE SubSeq(s,
                CHOOSE i \in 1..Len(s) :
                    s[i] \notin Whitespace /\ \A j \in 1..(i - 1) : s[j] \in Whitespace,
                CHOOSE i \in 1..Len(s) :
                    s[i] \notin Whitespace /\ \A j \in (i + 1)..Len(s) : s[j] \in Whitespace)

\* str.split(): the maximal runs of non-whitespace, in order
Split(s) ==
    LET starts == { i \in 1..Len(s) :
                      s[i] \notin Whitespace /\ (i = 1 \/ s[i - 1] \in Whitespace) }
        ends == { i \in 1..Len(s) :
                    s[i] \notin Whitespace /\ (i = Len(s) \/ s[i + 1] \in Whitespace) }
    IN  [k \in 1..Cardinality(starts) |-> SubSeq(s, NthOf(starts, k), NthOf(ends, k))]

\* str.split(","): the pieces between commas, empty ones kept
SplitComma(s) ==
    LET cuts == { i \in 1..Len(s) : s[i] = "," }
        n == Cardinality(cuts)
    IN  [k \in 1..(n + 1) |->
            SubSeq(s, IF k = 1 THEN 1 ELSE NthOf(cuts, k - 1) + 1,
                      IF k = n + 1 THEN Len(s) ELSE NthOf(cuts, k) - 1)]

\* str.splitlines(): the pieces between line boundaries ("\r\n" is one
\* boundary); a final boundary opens no further line
SplitLines(s) ==
    LET breaks == { i \in 1..Len(s) :
                      /\ s[i] \in LineBreaks
                      /\ ~(s[i] = "\n" /\ i > 1 /\ s[i - 1] = "\r") }
        n == Cardinality(breaks)
        BreakEnd(i) == IF s[i] = "\r" /\ i < Len(s) /\ s[i + 1] = "\n" THEN i + 1 ELSE i
        From(k) == IF k = 1 THEN 1 ELSE BreakEnd(NthOf(breaks, k - 1)) + 1
        closed == [k \in 1..n |-> SubSeq(s, From(k), NthOf(breaks, k) - 1)]
    IN  IF From(n + 1) <= Len(s)
        THEN Append(closed, SubSeq(s, From(n + 1), Len(s)))
        ELSE closed

\* sep.join(parts)
RECURSIVE Join(_, _)
Join(sep, parts) ==
    IF parts = <<>> THEN <<>>
    ELSE IF Len(parts) = 1 THEN parts[1]
         ELSE parts[1] \o sep \o Join(sep, Tail(parts))

\* x in list
In(x, list) == \E i \in 1..Len(list) : list[i] = x

\* ------------------------------------------------------------------------
\* Regex patterns
\* ------------------------------------------------------------------------

\* POSTAL_RE with the lower bound of the repetition off by one: ^\d{3,6}$
POSTAL_RE_fullmatch_m(t) ==
    /\ Len(t) >= 3
    /\ Len(t) <= 6
    /\ \A i \in 1..Len(t) : t[i] \in {"0", "1", "2", "3", "4", "5", "6", "7", "8", "9"}

\* POSTAL_RE.fullmatch(t): ^\d{4,6}$
POSTAL_RE_fullmatch(t) ==
    /\ Len(t) >= 4
    /\ Len(t) <= 6
    /\ \A i \in 1..Len(t) : t[i] \in Digits

\* the class [\d\s\-\(\)] of PHONE_RE
PhoneClass == Digits \cup Whitespace \cup {"-", "(", ")"}

\* PHONE_RE matches at offset i (0-based) of s: \+\d[\d\s\-\(\)]+$
PhoneMatchesAt(s, i) ==
    /\ i + 3 <= Len(s)
    /\ At(s, i) = "+"
    /\ At(s, i + 1) \in Digits
    /\ \A j \in (i + 2)..(Len(s) - 1) : At(s, j) \in PhoneClass

\* PHONE_RE.search(s): the offset of the leftmost match, or None
PHONE_RE_search(s) ==
    LET hits == { i \in 0..(Len(s) - 1) : PhoneMatchesAt(s, i) } IN
    IF hits = {} THEN None ELSE NthOf(hits, 1)

\* ------------------------------------------------------------------------
\* parse_lines
\* ------------------------------------------------------------------------

DEFAULT_COLUMNS ==
    <<"Company", "City", "StreetNo", "PostalCode", "Name", "Title", "Email", "Phone">>

\* line 91: the lines skipped before tokenizing
SkipLine(line) ==
    \/ line = <<>>
    \/ StartsWith(Lower(line), <<"p", "l", "z">>)

\* "@" in t
HasAt(t) == \E i \in 1..Len(t) : t[i] = "@"

\* line 95: index of the first token containing "@", or None
RECURSIVE EmailIdxFrom(_, _)
EmailIdxFrom(tokens, i) ==
    IF i >= Len(tokens) THEN None
    ELSE IF HasAt(At(tokens, i)) THEN i
         ELSE EmailIdxFrom(tokens, i + 1)

EmailIdx(tokens) == EmailIdxFrom(tokens, 0)

\* line 99: index of the first postal-code token of tokens[:email_idx], or None
RECURSIVE PostalIdxFrom(_, _)
PostalIdxFrom(head, i) ==
    IF i >= Len(head) THEN None
    ELSE IF POSTAL_RE_fullmatch(At(head, i)) THEN i
         ELSE PostalIdxFrom(head, i + 1)

PostalIdx(tokens, email_idx) == PostalIdxFrom(Slice(tokens, 0, email_idx), 0)

\* line 100 with the bound off by one
PostalRejected_m(postal_idx) == postal_idx = None \/ postal_idx < 2

\* line 100
PostalRejected(postal_idx) == postal_idx = None \/ postal_idx < 3

\* line 108 with the slice one token too long
CompanyOf_m(tokens, postal_idx) == Join(<<" ">>, Slice(tokens, 0, postal_idx - 1))

\* lines 108, 110, 112, 114
CompanyOf(tokens, postal_idx) == Join(<<" ">>, Slice(tokens, 0, postal_idx - 2))
CityOf(tokens, postal_idx) == At(tokens, postal_idx - 2)
StreetNoOf(tokens, postal_idx) == At(tokens, postal_idx - 1)
PostalCodeOf(tokens, postal_idx) == At(tokens, postal_idx)

\* line 116 with the slice starting one token late
AfterOf_m(tokens, postal_idx, email_idx) == Slice(tokens, postal_idx + 2, email_idx)

\* line 116
AfterOf(tokens, postal_idx, email_idx) == Slice(tokens, postal_idx + 1, email_idx)

\* line 117
AfterRejected(after) == Len(after) < 2

\* lines 121, 123, 126
NameOf(after) == Join(<<" ">>, Slice(after, 0, 2))
TitleOf(after) == IF Len(after) > 2 THEN Join(<<" ">>, SliceFrom(after, 2)) ELSE <<>>
EmailOf(tokens, email_idx) == At(tokens, email_idx)

\* lines 128-129
PhoneOf(tokens, email_idx) ==
    LET s == Join(<<" ">>, SliceFrom(tokens, email_idx + 1))
        m == PHONE_RE_search(s)
    IN  IF m # None THEN SliceFrom(s, m) ELSE <<>>

\* lines 107-129 without the test of the selection
Put_m(row, key, value, cols) == Append(row, <<key, value>>)

\* row[key] = value when key is selected (the "if key in columns" of 107-129)
Put(row, key, value, cols) ==
    IF In(key, cols) THEN Append(row, <<key, value>>) ELSE row

\* line 104
BaseRow(pidx) == << <<"Page", pidx + 1>> >>

\* lines 90-131: the rows one raw line appends to rows (none or one)
ParseLine(raw, pidx, cols) ==
    LET line == Strip(raw) IN
    IF SkipLine(line) THEN <<>> ELSE
    LET tokens == Split(line)
        email_idx == EmailIdx(tokens)
    IN
    IF email_idx = None THEN <<>> ELSE
    LET postal_idx == PostalIdx(tokens, email_idx) IN
    IF PostalRejected(postal_idx) THEN <<>> ELSE
    LET r0 == BaseRow(pidx)
        r1 == Put(r0, "Company", CompanyOf(tokens, postal_idx), cols)
        r2 == Put(r1, "City", CityOf(tokens, postal_idx), cols)
        r3 == Put(r2, "StreetNo", StreetNoOf(tokens, postal_idx), cols)
        r4 == Put(r3, "PostalCode", PostalCodeOf(tokens, postal_idx), cols)
        after == AfterOf(tokens, postal_idx, email_idx)
    IN
    IF AfterRejected(after) THEN <<>> ELSE
    LET r5 == Put(r4, "Name", NameOf(after), cols)
        r6 == Put(r5, "Title", TitleOf(after), cols)
        r7 == Put(r6, "Email", EmailOf(tokens, email_idx), cols)
        r8 == Put(r7, "Phone", PhoneOf(tokens, email_idx), cols)
    IN  << r8 >>

\* lines 88-132
RECURSIVE ParseAll(_, _, _)
ParseAll(lines, pidx, cols) ==
    IF lines = <<>> THEN <<>>
    ELSE ParseLine(Head(lines), pidx, cols) \o ParseAll(Tail(lines), pidx, cols)

parse_lines(txt, pidx, cols) == ParseAll(SplitLines(txt), pidx, cols)

\* ------------------------------------------------------------------------
\* Inputs of parse_lines
\* ------------------------------------------------------------------------

\* longest line, in tokens, of the enumerated token patterns
MaxTokens == 9
\* most tokens after the email token in the enumerated phone tails
MaxTail == 3
\* largest 0-based page index handed to parse_lines
MaxPageIdx == 2

\* "Acme GmbH Berlin 12 10115 Jane Doe jane.doe@acme.de +49 30 1234567"
ExampleLine ==
    <<"A","c","m","e"," ","G","m","b","H"," ","B","e","r","l","i","n"," ",
      "1","2"," ","1","0","1","1","5"," ","J","a","n","e"," ","D","o","e",
      " ","j","a","n","e",".","d","o","e","@","a","c","m","e",".","d","e",
      " ","+","4","9"," ","3","0"," ","1","2","3","4","5","6","7">>

\* "Foo Bar AG Bonn 7a 53111 Max Muster Dr. med. m@x.org"
TitleLine ==
    <<"F","o","o"," ","B","a","r"," ","A","G"," ","B","o","n","n"," ","7",
      "a"," ","5","3","1","1","1"," ","M","a","x"," ","M","u","s","t","e",
      "r"," ","D","r","."," ","m","e","d","."," ","m","@","x",".","o","r",
      "g">>

\* "PLZ Ort Strasse"
HeaderLine ==
    <<"P","L","Z"," ","O","r","t"," ","S","t","r","a","s","s","e">>

\* "Acme GmbH Berlin 12 10115 Jane j@acme.de +49 30 1"
ShortAfterLine ==
    <<"A","c","m","e"," ","G","m","b","H"," ","B","e","r","l","i","n"," ",
      "1","2"," ","1","0","1","1","5"," ","J","a","n","e"," ","j","@","a",
      "c","m","e",".","d","e"," ","+","4","9"," ","3","0"," ","1">>

\* "Acme GmbH Berlin 12 10115 Jane Doe"
NoEmailLine ==
    <<"A","c","m","e"," ","G","m","b","H"," ","B","e","r","l","i","n"," ",
      "1","2"," ","1","0","1","1","5"," ","J","a","n","e"," ","D","o","e">>

\* "Berlin 12 10115 Jane Doe j@acme.de +49 30 1"
EarlyPostalLine ==
    <<"B","e","r","l","i","n"," ","1","2"," ","1","0","1","1","5"," ","J",
      "a","n","e"," ","D","o","e"," ","j","@","a","c","m","e",".","d","e",
      " ","+","4","9"," ","3","0"," ","1">>

\* a line of whitespace only
BlankLine == <<" ", "\t">>

SampleLines ==
    {ExampleLine, TitleLine, HeaderLine, ShortAfterLine, NoEmailLine, EarlyPostalLine,
     BlankLine}

DigitSeq == <<"0", "1", "2", "3", "4", "5", "6", "7", "8", "9">>
DigitChar(i) == DigitSeq[(i % 10) + 1]

\* a word, a postal code or an email address, made distinct by its position i
Kinds == {"W", "P", "E"}
Tok(kind, i) ==
    CASE kind = "W" -> <<"w", DigitChar(i)>>
      [] kind = "P" -> <<"1", "0", "1", "1", DigitChar(i)>>
      [] kind = "E" -> <<"e", DigitChar(i), "@", "x", ".", "d", "e">>

TokensOf(kinds) == [i \in 1..Len(kinds) |-> Tok(kinds[i], i - 1)]

\* every line of at most MaxTokens tokens over the three kinds that holds
\* at most two postal codes and at most two email addresses (enough for a
\* first and a later one of each)
Count(k, kind) == Cardinality({ i \in 1..Len(k) : k[i] = kind })
KindLines ==
    { Join(<<" ">>, TokensOf(k)) :
        k \in { f \in UNION { [1..n -> Kinds] : n \in 0..MaxTokens } :
                  Count(f, "P") <= 2 /\ Count(f, "E") <= 2 } }

\* "w0 w1 w2 10113 w4 w5 e6@x.de": the shortest accepted shape
AcceptedTokens == TokensOf(<<"W", "W", "W", "P", "W", "W", "E">>)

\* tokens that may follow the email token
TailTokens ==
    { <<"+", "4", "9">>, <<"3", "0">>, <<"(", "0", ")">>, <<"x">>, <<"+", "4">>,
      <<"+">>, <<"1", "-", "2">> }

TailLines ==
    { Join(<<" ">>, AcceptedTokens \o t) :
        t \in UNION { [1..n -> TailTokens] : n \in 0..MaxTail } }

\* candidates for the postal-code position: 3 to 7 digits, and near misses
PostalCandidates ==
    { <<"1", "2", "3">>, <<"1", "2", "3", "4">>, <<"1", "2", "3", "4", "5">>,
      <<"1", "2", "3", "4", "5", "6">>, <<"1", "2", "3", "4", "5", "6", "7">>,
      <<"1", "2", "a", "4", "5">>, <<"1", "2", "3", "4", "-">>, <<"D", "1", "2", "3", "4">> }

PostalLines ==
    { Join(<<" ">>, [AcceptedTokens EXCEPT ![4] = c]) : c \in PostalCandidates }

\* candidates for the first token of a line: the header marker and near misses
HeadTokens ==
    { <<"p", "l", "z">>, <<"P", "L", "Z">>, <<"P", "l", "z", ":">>, <<"p", "L", "z", "e", "n">>,
      <<"p", "l">>, <<"x", "p", "l", "z">>, <<"p">>, <<"l", "z", "p">> }

HeadLines == { Join(<<" ">>, <<h>> \o AcceptedTokens) : h \in HeadTokens }

\* the same tokens under other leading, separating and trailing whitespace
Pads == { <<>>, <<" ">>, <<"\t", " ">> }
Seps == { <<" ">>, <<" ", " ">>, <<"\t">> }
PaddedLines ==
    { lead \o Join(sep, Split(l)) \o trail :
        l \in SampleLines, lead \in Pads, sep \in Seps, trail \in Pads }

\* texts of two lines, under each line boundary, with and without a final one
Breaks == { <<"\n">>, <<"\r", "\n">>, <<"\r">>, <<"\f">> }
TwoLineTexts ==
    { a \o b1 \o c \o b2 :
        a \in SampleLines, c \in SampleLines, b1 \in Breaks, b2 \in {<<>>, <<"\n">>, <<"\f">>} }

\* a subset of the eight field names, listed in the order of DEFAULT_COLUMNS
SubsetSeq(S) == SelectSeq(DEFAULT_COLUMNS, LAMBDA c : c \in S)
Fields == { DEFAULT_COLUMNS[i] : i \in 1..Len(DEFAULT_COLUMNS) }

\* column selections: every subset, and lists in another order, with a
\* repeated name, with an unknown name
ColumnChoices ==
    { SubsetSeq(S) : S \in SUBSET Fields }
    \cup { <<"Phone", "Email">>, <<"Email", "Company", "Name">>, <<"Email", "Email">>,
           <<"Phone", "Email", "Title", "Name", "PostalCode", "StreetNo", "City", "Company">>,
           <<"Fax", "Email">> }

ParseInputs ==
    { [text |-> l, page_idx |-> 0, columns |-> DEFAULT_COLUMNS] :
        l \in KindLines \cup TailLines \cup PostalLines \cup HeadLines
              \cup PaddedLines \cup TwoLineTexts }
    \cup { [text |-> l, page_idx |-> p, columns |-> c] :
             l \in SampleLines, p \in 0..MaxPageIdx, c \in ColumnChoices }

\* ------------------------------------------------------------------------
\* Column names, file names, DataFrame and the two writers
\* ------------------------------------------------------------------------

\* a str used as a dict key or a column name is written as a TLA+ string;
\* CharsOf gives the characters of the eight field names
CharsOf ==
    [ Company |-> <<"C", "o", "m", "p", "a", "n", "y">>,
      City |-> <<"C", "i", "t", "y">>,
      StreetNo |-> <<"S", "t", "r", "e", "e", "t", "N", "o">>,
      PostalCode |-> <<"P", "o", "s", "t", "a", "l", "C", "o", "d", "e">>,
      Name |-> <<"N", "a", "m", "e">>,
      Title |-> <<"T", "i", "t", "l", "e">>,
      Email |-> <<"E", "m", "a", "i", "l">>,
      Phone |-> <<"P", "h", "o", "n", "e">> ]

\* the name spelled by the characters c; any other spelling is no field
NameOfChars(c) ==
    IF \E n \in DOMAIN CharsOf : CharsOf[n] = c
    THEN CHOOSE n \in DOMAIN CharsOf : CharsOf[n] = c
    ELSE "(other)"

\* line 46: ",".join(DEFAULT_COLUMNS)
DefaultColumnsArg ==
    Join(<<",">>, [i \in 1..Len(DEFAULT_COLUMNS) |-> CharsOf[DEFAULT_COLUMNS[i]]])

\* line 148
ParseColumns(arg) ==
    LET parts == SplitComma(arg)
    IN  [i \in 1..Len(parts) |-> NameOfChars(Strip(parts[i]))]

\* str.endswith(suffix)
EndsWith(s, suffix) ==
    /\ Len(s) >= Len(suffix)
    /\ SubSeq(s, Len(s) - Len(suffix) + 1, Len(s)) = suffix

DotPdf == <<".", "p", "d", "f">>

\* line 184: the entries of a directory that match "*.pdf", in listing order
Glob(entries) == SelectSeq(entries, LAMBDA f : EndsWith(f.name, DotPdf))

\* pdf_path.stem of a name matched by "*.pdf"
Stem(name) == SubSeq(name, 1, Len(name) - Len(DotPdf))

\* lines 166, 167
CsvFile(name) ==
    Stem(name) \o <<"_", "t", "a", "b", "l", "e", "s", ".", "c", "s", "v">>
ExcelFile(name) ==
    Stem(name) \o <<"_", "t", "a", "b", "l", "e", "s", ".", "x", "l", "s", "x">>

\* row[key]
Lookup(row, key) == row[CHOOSE i \in 1..Len(row) : row[i][1] = key][2]

\* the keys of a dict not yet among the columns, appended in the dict's order
RECURSIVE AddKeys(_, _)
AddKeys(row, cols) ==
    IF row = <<>> THEN cols
    ELSE AddKeys(Tail(row), IF In(Head(row)[1], cols) THEN cols ELSE Append(cols, Head(row)[1]))

RECURSIVE FrameColumns(_, _)
FrameColumns(dicts, cols) ==
    IF dicts = <<>> THEN cols
    ELSE FrameColumns(Tail(dicts), AddKeys(Head(dicts), cols))

\* line 165: pd.DataFrame(all_rows): the columns are the dict keys in the
\* order first seen, no column at all for an empty list.  The dicts of one
\* file have the same keys (those of line 104 and of the selection), so no
\* cell is missing.
DataFrame(dicts) ==
    LET cols == FrameColumns(dicts, <<>>)
    IN  [ columns |-> cols,
          data |-> [i \in 1..Len(dicts) |->
                      [j \in 1..Len(cols) |-> Lookup(dicts[i], cols[j])]] ]

\* str(n) for n >= 0
RECURSIVE IntToStr(_)
IntToStr(n) ==
    IF n < 10 THEN <<DigitChar(n)>>
    ELSE IntToStr(n \div 10) \o <<DigitChar(n % 10)>>

\* a file: whether it exists, its header row and its data rows
NoFile == [exists |-> FALSE, header |-> <<>>, body |-> <<>>]

\* line 169: df.to_csv(csv_file, index=False): the header, then each row
\* with the integers of column Page written in decimal
ToCsv(frame) ==
    [ exists |-> TRUE,
      header |-> frame.columns,
      body |-> [i \in 1..Len(frame.data) |->
                  [j \in 1..Len(frame.columns) |->
                      IF frame.columns[j] = "Page"
                      THEN IntToStr(frame.data[i][j])
                      ELSE frame.data[i][j]]] ]

\* df.drop(columns=["Page"]) raises KeyError when df has no column Page
DropRaises(frame) == ~In("Page", frame.columns)

\* df.drop(columns=["Page"])
DropPage(frame) ==
    LET keep == SelectSeq([j \in 1..Len(frame.columns) |-> j],
                          LAMBDA j : frame.columns[j] # "Page")
    IN  [ columns |-> [n \in 1..Len(keep) |-> frame.columns[keep[n]]],
          data |-> [i \in 1..Len(frame.data) |->
                      [n \in 1..Len(keep) |-> frame.data[i][keep[n]]]] ]

\* line 170: .to_excel(excel_file, index=False)
ToExcel(frame) ==
    [ exists |-> TRUE, header |-> frame.columns, body |-> frame.data ]

\* line 185 without the test
NoneFound_m(found) == FALSE

\* lines 180, 185: the two pre-flight tests of main
DirMissing(dir) == ~dir.exists
NoneFound(found) == found = <<>>

\* lines 190-191 with the call wrapped in try/except and the loop going on
Uncaught_m(idx) == [pc |-> "loop", file_idx |-> idx + 1, exit_status |-> None]

\* lines 190-191: nothing catches an exception raised in process_pdf: the
\* loop at position idx is left and the interpreter exits with status 1
Uncaught(idx) == [pc |-> "exit", file_idx |-> idx, exit_status |-> 1]

\* ------------------------------------------------------------------------
\* Inputs of a run
\* ------------------------------------------------------------------------

\* most PDFs in the directory "input"
MaxPdfs == 2
\* most pages of all its PDFs together
MaxPages == 3

\* "d1.pdf", "d2.pdf", ...
PdfName(i) == <<"d", DigitChar(i)>> \o DotPdf
NotesTxt == <<"n", "o", "t", "e", "s", ".", "t", "x", "t">>

\* the listings of "input": up to MaxPdfs PDFs of at least one page each,
\* MaxPages pages at most in all, with or without a file that is no PDF
RECURSIVE Sum(_)
Sum(l) == IF l = <<>> THEN 0 ELSE Head(l) + Sum(Tail(l))

PageCounts ==
    { l \in UNION { [1..n -> 1..MaxPages] : n \in 0..MaxPdfs } : Sum(l) <= MaxPages }

Listings ==
    LET pdfs == { [i \in 1..Len(l) |-> [name |-> PdfName(i), pages |-> l[i]]] :
                    l \in PageCounts }
    IN  pdfs \cup { <<[name |-> NotesTxt, pages |-> 0]>> \o d : d \in pdfs }

InputDirs ==
    { [exists |-> FALSE, entries |-> <<>>] }
    \cup { [exists |-> TRUE, entries |-> d] : d \in Listings }

\* every name process_pdf can write to
OutputNames ==
    UNION { {CsvFile(PdfName(i)), ExcelFile(PdfName(i))} : i \in 1..MaxPdfs }

\* an output file left by an earlier run
OldFile ==
    [ exists |-> TRUE, header |-> <<"Email">>,
      body |-> << << <<"o", "l", "d", "@", "x", ".", "d", "e">> >> >> ]

\* values of --columns
ColumnArgs ==
    { DefaultColumnsArg,
      CharsOf.Email \o <<",">> \o CharsOf.Phone,
      CharsOf.Email \o <<",", " ">> \o CharsOf.Company \o <<",">> \o CharsOf.Name }

\* texts the recognizer returns for a page: no accepted line, one, two
TextNone == HeaderLine \o <<"\n">> \o NoEmailLine \o <<"\n", "\f">>
TextOne == ExampleLine \o <<"\n", "\f">>
TextTwo ==
    HeaderLine \o <<"\n">> \o TitleLine \o <<"\n">> \o ShortAfterLine \o <<"\n">>
    \o Join(<<" ">>, AcceptedTokens) \o <<"\n">>
PageTexts == {TextNone, TextOne, TextTwo}

\* ------------------------------------------------------------------------
\* The two specifications
\* ------------------------------------------------------------------------

vars ==
    <<text, rows, page_idx, columns, pc, input_dir, output_dir, files, args_columns,
      pdf_files, file_idx, exit_status, page_count, all_rows, df,
      opened, rasterized, recognized, written, failed_at>>

runVars ==
    <<input_dir, output_dir, files, args_columns, pdf_files, file_idx, exit_status,
      page_count, all_rows, df, opened, rasterized, recognized, written, failed_at>>

EmptyFrame == [columns |-> <<>>, data |-> <<>>]

\* the program variables before main has run
Fresh ==
    /\ pdf_files = <<>>
    /\ file_idx = 0
    /\ exit_status = None
    /\ page_count = 0
    /\ all_rows = <<>>
    /\ df = EmptyFrame
    /\ opened = <<>>
    /\ rasterized = 0
    /\ recognized = <<>>
    /\ written = <<>>
    /\ failed_at = 0

\* --- a call of parse_lines on its own --------------------------------------

ParseInit ==
    /\ \E in \in ParseInputs :
        /\ text = in.text
        /\ page_idx = in.page_idx
        /\ columns = in.columns
    /\ rows = <<>>
    /\ pc = "call"
    /\ input_dir = [exists |-> FALSE, entries |-> <<>>]
    /\ output_dir = "absent"
    /\ files = [n \in OutputNames |-> NoFile]
    /\ args_columns = DefaultColumnsArg
    /\ Fresh

\* lines 76-132
ParseLinesCall ==
    /\ pc = "call"
    /\ rows' = parse_lines(text, page_idx, columns)
    /\ pc' = "return"
    /\ UNCHANGED <<text, page_idx, columns>>
    /\ UNCHANGED runVars

ParseNext == ParseLinesCall

ParseSpec == ParseInit /\ [][ParseNext]_vars

\* --- a run of main ---------------------------------------------------------

Init ==
    /\ text = <<>>
    /\ rows = <<>>
    /\ page_idx = 0
    /\ columns = <<>>
    /\ pc = "main"
    /\ input_dir \in InputDirs
    /\ args_columns \in ColumnArgs
    /\ \/ /\ output_dir = "absent"
          /\ files = [n \in OutputNames |-> NoFile]
       \/ /\ output_dir = "present"
          /\ files = [n \in OutputNames |-> OldFile]
    /\ Fresh

\* lines 180-182
InputDirMissing ==
    /\ pc = "main"
    /\ DirMissing(input_dir)
    /\ pc' = "exit"
    /\ exit_status' = 1
    /\ UNCHANGED <<text, rows, page_idx, columns, input_dir, output_dir, files,
                   args_columns, pdf_files, file_idx, page_count, all_rows, df,
                   opened, rasterized, recognized, written, failed_at>>

\* lines 184-187
NoPdfFiles ==
    /\ pc = "main"
    /\ ~DirMissing(input_dir)
    /\ NoneFound(Glob(input_dir.entries))
    /\ pdf_files' = Glob(input_dir.entries)
    /\ pc' = "exit"
    /\ exit_status' = 1
    /\ UNCHANGED <<text, rows, page_idx, columns, input_dir, output_dir, files,
                   args_columns, file_idx, page_count, all_rows, df,
                   opened, rasterized, recognized, written, failed_at>>

\* lines 184-189
FoundPdfFiles ==
    /\ pc = "main"
    /\ ~DirMissing(input_dir)
    /\ ~NoneFound(Glob(input_dir.entries))
    /\ pdf_files' = Glob(input_dir.entries)
    /\ file_idx' = 0
    /\ pc' = "loop"
    /\ UNCHANGED <<text, rows, page_idx, columns, input_dir, output_dir, files,
                   args_columns, exit_status, page_count, all_rows, df,
                   opened, rasterized, recognized, written, failed_at>>

\* lines 190-191, 143-148: the loop takes the next PDF and process_pdf
\* creates "output" and reads the column selection
ProcessPdfBegin ==
    /\ pc = "loop"
    /\ file_idx < Len(pdf_files)
    /\ output_dir' = IF output_dir = "absent" THEN "created" ELSE output_dir
    /\ columns' = ParseColumns(args_columns)
    /\ pc' = "open"
    /\ UNCHANGED <<text, rows, page_idx, input_dir, files, args_columns, pdf_files,
                   file_idx, exit_status, page_count, all_rows, df,
                   opened, rasterized, recognized, written, failed_at>>

\* line 190 with no PDF left: main returns, the interpreter exits with 0
MainReturns ==
    /\ pc = "loop"
    /\ file_idx = Len(pdf_files)
    /\ pc' = "exit"
    /\ exit_status' = 0
    /\ UNCHANGED <<text, rows, page_idx, columns, input_dir, output_dir, files,
                   args_columns, pdf_files, file_idx, page_count, all_rows, df,
                   opened, rasterized, recognized, written, failed_at>>

\* an exception of fitz.open, rotate_page or image_to_string leaves the run
Raise ==
    /\ pc' = Uncaught(file_idx).pc
    /\ file_idx' = Uncaught(file_idx).file_idx
    /\ exit_status' = Uncaught(file_idx).exit_status
    /\ failed_at' = file_idx + 1

\* lines 150-153: fitz.open succeeds
OpenPdf ==
    /\ pc = "open"
    /\ page_count' = At(pdf_files, file_idx).pages
    /\ all_rows' = <<>>
    /\ page_idx' = 0
    /\ opened' = Append(opened, At(pdf_files, file_idx).name)
    /\ recognized' = <<>>
    /\ pc' = IF At(pdf_files, file_idx).pages > 0 THEN "rotate" ELSE "frame"
    /\ UNCHANGED <<text, rows, columns, input_dir, output_dir, files, args_columns,
                   pdf_files, file_idx, exit_status, df, rasterized, written,
                   failed_at>>

\* line 150: fitz.open raises
OpenPdfFails ==
    /\ pc = "open"
    /\ Raise
    /\ UNCHANGED <<text, rows, page_idx, columns, input_dir, output_dir, files,
                   args_columns, pdf_files, page_count, all_rows, df,
                   opened, rasterized, recognized, written>>

\* lines 154-157: the page is rasterized and cropped
RotatePage ==
    /\ pc = "rotate"
    /\ rasterized' = rasterized + 1
    /\ pc' = "ocr"
    /\ UNCHANGED <<text, rows, page_idx, columns, input_dir, output_dir, files,
                   args_columns, pdf_files, file_idx, exit_status, page_count,
                   all_rows, df, opened, recognized, written, failed_at>>

\* line 154: load_page or get_pixmap raises
RotatePageFails ==
    /\ pc = "rotate"
    /\ Raise
    /\ UNCHANGED <<text, rows, page_idx, columns, input_dir, output_dir, files,
                   args_columns, pdf_files, page_count, all_rows, df,
                   opened, rasterized, recognized, written>>

\* lines 159-160, 153: the recognizer returns some text, its rows are
\* appended, the loop moves to the next page
ImageToString ==
    /\ pc = "ocr"
    /\ \E ocr_text \in PageTexts :
        /\ all_rows' = all_rows \o parse_lines(ocr_text, page_idx, columns)
        /\ recognized' = Append(recognized, ocr_text)
    /\ page_idx' = page_idx + 1
    /\ pc' = IF page_idx + 1 < page_count THEN "rotate" ELSE "frame"
    /\ UNCHANGED <<text, rows, columns, input_dir, output_dir, files, args_columns,
                   pdf_files, file_idx, exit_status, page_count, df,
                   opened, rasterized, written, failed_at>>

\* line 159: image_to_string raises
ImageToStringFails ==
    /\ pc = "ocr"
    /\ Raise
    /\ UNCHANGED <<text, rows, page_idx, columns, input_dir, output_dir, files,
                   args_columns, pdf_files, page_count, all_rows, df,
                   opened, rasterized, recognized, written>>

\* lines 162-169: the DataFrame is built and written as CSV
WriteCsv ==
    /\ pc = "frame"
    /\ df' = DataFrame(all_rows)
    /\ files' = [files EXCEPT ![CsvFile(At(pdf_files, file_idx).name)] =
                    ToCsv(DataFrame(all_rows))]
    /\ written' = Append(written, CsvFile(At(pdf_files, file_idx).name))
    /\ pc' = "excel"
    /\ UNCHANGED <<text, rows, page_idx, columns, input_dir, output_dir,
                   args_columns, pdf_files, file_idx, exit_status, page_count,
                   all_rows, opened, rasterized, recognized, failed_at>>

\* lines 170-172: the frame without Page is written as XLSX, process_pdf
\* returns to the loop of main
WriteExcel ==
    /\ pc = "excel"
    /\ ~DropRaises(df)
    /\ files' = [files EXCEPT ![ExcelFile(At(pdf_files, file_idx).name)] =
                    ToExcel(DropPage(df))]
    /\ written' = Append(written, ExcelFile(At(pdf_files, file_idx).name))
    /\ file_idx' = file_idx + 1
    /\ pc' = "loop"
    /\ UNCHANGED <<text, rows, page_idx, columns, input_dir, output_dir,
                   args_columns, pdf_files, exit_status, page_count, all_rows, df,
                   opened, rasterized, recognized, failed_at>>

\* line 170: df.drop raises KeyError, which nothing catches
DropPageRaises ==
    /\ pc = "excel"
    /\ DropRaises(df)
    /\ pc' = Uncaught(file_idx).pc
    /\ file_idx' = Uncaught(file_idx).file_idx
    /\ exit_status' = Uncaught(file_idx).exit_status
    /\ UNCHANGED <<text, rows, page_idx, columns, input_dir, output_dir, files,
                   args_columns, pdf_files, page_count, all_rows, df,
                   opened, rasterized, recognized, written, failed_at>>

Next ==
    \/ InputDirMissing
    \/ NoPdfFiles
    \/ FoundPdfFiles
    \/ ProcessPdfBegin
    \/ MainReturns
    \/ OpenPdf
    \/ OpenPdfFails
    \/ RotatePage
    \/ RotatePageFails
    \/ ImageToString
    \/ ImageToStringFails
    \/ WriteCsv
    \/ WriteExcel
    \/ DropPageRaises

Spec == Init /\ [][Next]_vars

\* ------------------------------------------------------------------------
\* Statements about parse_lines, in the words of the specification
\* ------------------------------------------------------------------------

\* a dict as the set of its keys and as a function of them
KeySet(row) == { row[i][1] : i \in 1..Len(row) }
RowMap(row) == [ k \in KeySet(row) |-> row[CHOOSE i \in 1..Len(row) : row[i][1] = k][2] ]

Chars(t) == { t[i] : i \in 1..Len(t) }
ColumnSet == { columns[i] : i \in 1..Len(columns) }

\* the lines of the text handed to parse_lines, and the tokens of a line
Lines == SplitLines(text)
Tokens(l) == Split(Strip(l))

\* a trimmed line starting with "plz" in any letter case
IsHeader(l) ==
    LET t == Strip(l) IN
    /\ Len(t) >= 3
    /\ t[1] \in {"p", "P"}
    /\ t[2] \in {"l", "L"}
    /\ t[3] \in {"z", "Z"}

\* a token of 4 to 6 digits and nothing else
IsPostalCode(t) == Len(t) \in 4..6 /\ Chars(t) \subseteq Digits

Least(S) == CHOOSE x \in S : \A y \in S : x <= y

\* what the specification reads off a line: its tokens, e (the 0-based index
\* of the first token containing "@"), p (the 0-based index of the first
\* postal-code token below e), each index -1 when there is no such token,
\* and whether the line meets conditions (1)-(5) of acceptance
Shape(l) ==
    LET toks == Tokens(l)
        ats == { i \in 0..(Len(toks) - 1) : "@" \in Chars(toks[i + 1]) }
        e == IF ats = {} THEN -1 ELSE Least(ats)
        posts == { i \in 0..(e - 1) : IsPostalCode(toks[i + 1]) }
        p == IF posts = {} THEN -1 ELSE Least(posts)
    IN  [ toks |-> toks, e |-> e, p |-> p,
          ok |-> /\ Strip(l) # <<>>
                 /\ ~IsHeader(l)
                 /\ ats # {}
                 /\ posts # {}
                 /\ p >= 3
                 /\ e - p - 1 >= 2 ]

Acceptable(l) == Shape(l).ok

\* the accepted lines of the text, in order
SourceLines == SelectSeq(Lines, Acceptable)

Returned == pc = "return"

\* a phone number: "+", a digit, then at least one digit or separator
IsPhone(s) ==
    /\ Len(s) >= 3
    /\ s[1] = "+"
    /\ s[2] \in Digits
    /\ \A j \in 3..Len(s) : s[j] \in Digits \cup {" ", "-", "(", ")"}

\* the phone number the text ends with, "" if it ends with none
TrailingPhone(s) ==
    LET starts == { k \in 1..Len(s) : IsPhone(SubSeq(s, k, Len(s))) } IN
    IF starts = {} THEN <<>>
    ELSE SubSeq(s, CHOOSE k \in starts : \A m \in starts : k <= m, Len(s))

\* the record the specification describes for an accepted line
RecordOf(l, page) ==
    LET sh == Shape(l)
        toks == sh.toks
        p == sh.p + 1
        e == sh.e + 1
    IN  [ Page |-> page,
          Company |-> Join(<<" ">>, SubSeq(toks, 1, p - 3)),
          City |-> toks[p - 2],
          StreetNo |-> toks[p - 1],
          PostalCode |-> toks[p],
          Name |-> toks[p + 1] \o <<" ">> \o toks[p + 2],
          Title |-> Join(<<" ">>, SubSeq(toks, p + 3, e - 1)),
          Email |-> toks[e],
          Phone |-> TrailingPhone(Join(<<" ">>, SubSeq(toks, e + 1, Len(toks)))) ]

ExampleRecord ==
    [ Page |-> 1,
      Company |-> <<"A", "c", "m", "e", " ", "G", "m", "b", "H">>,
      City |-> <<"B", "e", "r", "l", "i", "n">>,
      StreetNo |-> <<"1", "2">>,
      PostalCode |-> <<"1", "0", "1", "1", "5">>,
      Name |-> <<"J", "a", "n", "e", " ", "D", "o", "e">>,
      Title |-> <<>>,
      Email |-> <<"j", "a", "n", "e", ".", "d", "o", "e", "@", "a", "c", "m", "e", ".", "d", "e">>,
      Phone |-> <<"+", "4", "9", " ", "3", "0", " ", "1", "2", "3", "4", "5", "6", "7">> ]

AllSelected == Fields \subseteq ColumnSet

\* C1: parse_lines emits one record for a line exactly when the line meets
\* conditions (1)-(5), and nothing otherwise, whatever the column selection
\* and the page number: the rows returned number the accepted lines.
C1_OneRecordIffAccepted ==
    Returned =>
        LET lines == Lines
            accepted == { i \in 1..Len(lines) : Acceptable(lines[i]) }
        IN
        /\ Len(rows) = Cardinality(accepted)
        /\ Len(lines) = 1 => (Len(rows) = 1 <=> accepted = {1})

C1_Witness ==
    /\ Returned
    /\ Len(Lines) = 1
    /\ Len(rows) = 1
    /\ page_idx > 0
    /\ columns = <<"Email", "Company", "Name">>

\* C2: with all eight fields selected, the record of an accepted line holds
\* Page, Company, City, StreetNo, PostalCode, Name, Title, Email and Phone as
\* the specification derives them from p and e; the Acme line gives the
\* record of end-to-end example 1.
C2_RecordFields ==
    (Returned /\ AllSelected) =>
        LET src == SourceLines IN
        /\ Len(rows) = Len(src)
        /\ \A i \in 1..Len(rows) : RowMap(rows[i]) = RecordOf(src[i], page_idx + 1)
        /\ (text = ExampleLine /\ page_idx = 0) =>
              (Len(rows) = 1 /\ RowMap(rows[1]) = ExampleRecord)

C2_Witness ==
    /\ Returned
    /\ text = ExampleLine
    /\ page_idx = 0
    /\ columns = DEFAULT_COLUMNS
    /\ Len(rows) = 1
    /\ RowMap(rows[1]).Phone # <<>>

\* C3: a selection S of field names yields a record exactly when the full
\* selection does, with keys {Page} \cup S and the full record's values.
C3_Projection ==
    (Returned /\ ColumnSet \subseteq Fields) =>
        LET full == parse_lines(text, page_idx, DEFAULT_COLUMNS) IN
        /\ Len(rows) = Len(full)
        /\ \A i \in 1..Len(rows) :
              /\ KeySet(rows[i]) = {"Page"} \cup ColumnSet
              /\ \A k \in KeySet(rows[i]) : RowMap(rows[i])[k] = RowMap(full[i])[k]

C3_Witness ==
    /\ Returned
    /\ text = ExampleLine
    /\ columns = <<"Email", "Phone">>
    /\ Len(rows) = 1
    /\ KeySet(rows[1]) = {"Page", "Email", "Phone"}

\* C9: a populated PostalCode is a token of the source line made of 4 to 6
\* digits; a populated Email is the first token of the source line that
\* contains "@", copied verbatim.
C9_PostalAndEmail ==
    Returned =>
        LET src == SourceLines IN
        /\ Len(rows) = Len(src)
        /\ \A i \in 1..Len(rows) :
            LET toks == Tokens(src[i])
                rec == RowMap(rows[i])
            IN  /\ "PostalCode" \in KeySet(rows[i]) =>
                      /\ \E n \in 1..Len(toks) : toks[n] = rec.PostalCode
                      /\ IsPostalCode(rec.PostalCode)
                /\ "Email" \in KeySet(rows[i]) =>
                      \E n \in 1..Len(toks) :
                          /\ toks[n] = rec.Email
                          /\ "@" \in Chars(rec.Email)
                          /\ \A j \in 1..(n - 1) : "@" \notin Chars(toks[j])

C9_Witness ==
    /\ Returned
    /\ Len(rows) = 1
    /\ {"PostalCode", "Email"} \subseteq KeySet(rows[1])
    /\ Cardinality({ n \in 1..Len(Tokens(Lines[1])) : "@" \in Chars(Tokens(Lines[1])[n]) }) > 1

\* C10: behind every full record 3 <= p and p + 3 <= e, so the line has at
\* least 7 tokens; Company, City, StreetNo, PostalCode and Name are
\* non-empty; and the fields joined by single spaces give back tokens[0..e].
C10_Structure ==
    (Returned /\ AllSelected) =>
        LET src == SourceLines
            lines == Lines
        IN
        /\ Len(rows) = Len(src)
        /\ (\A n \in 1..Len(lines) : Len(Tokens(lines[n])) < 7) => rows = <<>>
        /\ \A i \in 1..Len(rows) :
            LET sh == Shape(src[i])
                toks == sh.toks
                rec == RowMap(rows[i])
            IN  /\ 3 <= sh.p
                /\ sh.p + 3 <= sh.e
                /\ Len(toks) >= 7
                /\ \A k \in {"Company", "City", "StreetNo", "PostalCode", "Name"} :
                      rec[k] # <<>>
                /\ Join(<<" ">>,
                        <<rec.Company, rec.City, rec.StreetNo, rec.PostalCode, rec.Name>>
                        \o (IF rec.Title # <<>> THEN <<rec.Title>> ELSE <<>>)
                        \o <<rec.Email>>)
                   = Join(<<" ">>, SubSeq(toks, 1, sh.e + 1))

C10_Witness ==
    /\ Returned
    /\ AllSelected
    /\ Len(rows) = 1
    /\ RowMap(rows[1]).Title # <<>>
    /\ Len(Tokens(Lines[1])) > 7

\* ------------------------------------------------------------------------
\* Statements about a run of main
\* ------------------------------------------------------------------------

\* "input" holds at least one PDF
HasPdf ==
    \E i \in 1..Len(input_dir.entries) : EndsWith(input_dir.entries[i].name, DotPdf)

PreflightFailure == ~input_dir.exists \/ ~HasPdf

Written == { written[i] : i \in 1..Len(written) }

\* the names of the first n PDFs of the run
FirstNames(n) == [i \in 1..n |-> pdf_files[i].name]

\* the decimal number a CSV cell holds
RECURSIVE ReadInt(_)
ReadInt(c) ==
    IF c = <<>> THEN 0
    ELSE 10 * ReadInt(SubSeq(c, 1, Len(c) - 1))
         + (CHOOSE d \in 0..9 : DigitSeq[d + 1] = c[Len(c)])

\* C4: the CSV columns are Page followed by the selected fields in the
\* order of the Column Selection, the XLSX columns are the selected fields
\* in that order (stated for the outputs that hold at least one row).
C4_ColumnOrder ==
    \A i \in 1..Len(pdf_files) :
        LET csv == CsvFile(pdf_files[i].name)
            xlsx == ExcelFile(pdf_files[i].name)
        IN  /\ (csv \in Written /\ files[csv].body # <<>>) =>
                  files[csv].header = <<"Page">> \o columns
            /\ (xlsx \in Written /\ files[xlsx].body # <<>>) =>
                  files[xlsx].header = columns

\* C5: with an input directory holding a PDF and no failure of opening,
\* rasterizing or recognizing, the run ends having processed every PDF and
\* written both output files of each, with exit status 0, whatever the
\* number of records of a file.
C5_AllWrittenExitZero ==
    (pc = "exit" /\ ~PreflightFailure /\ failed_at = 0) =>
        /\ exit_status = 0
        /\ opened = FirstNames(Len(pdf_files))
        /\ \A i \in 1..Len(pdf_files) :
              /\ CsvFile(pdf_files[i].name) \in Written
              /\ ExcelFile(pdf_files[i].name) \in Written

\* C6: without an input directory, or without a PDF in it, main ends with
\* a non-zero exit status before any work: no PDF opened, no page
\* rasterized or recognized, "output" not created, no output file written.
C6_Preflight ==
    PreflightFailure =>
        /\ pc \in {"main", "exit"}
        /\ pc = "exit" => exit_status \notin {None, 0}
        /\ opened = <<>>
        /\ rasterized = 0
        /\ recognized = <<>>
        /\ output_dir # "created"
        /\ written = <<>>
        /\ \A n \in OutputNames :
              files[n] = IF output_dir = "absent" THEN NoFile ELSE OldFile

C6_Witness ==
    /\ pc = "exit"
    /\ input_dir.exists
    /\ input_dir.entries # <<>>
    /\ ~HasPdf
    /\ exit_status = 1

\* C7: when opening, rasterizing or recognizing fails in the k-th PDF the
\* run aborts: it is at its exit with a non-zero status, nothing has been
\* written for the k-th PDF, no later PDF has been opened, and from the
\* failure on no output file changes.
C7_Aborted ==
    failed_at # 0 =>
        /\ pc = "exit"
        /\ exit_status \notin {None, 0}
        /\ CsvFile(pdf_files[failed_at].name) \notin Written
        /\ ExcelFile(pdf_files[failed_at].name) \notin Written
        /\ Len(opened) <= failed_at
        /\ opened = FirstNames(Len(opened))
        /\ \A n \in Written :
              \E i \in 1..(failed_at - 1) :
                  n \in {CsvFile(pdf_files[i].name), ExcelFile(pdf_files[i].name)}

C7_AbortOnFailure ==
    /\ []C7_Aborted
    /\ [][failed_at' # 0 => (files' = files /\ written' = written)]_vars

C7_Witness ==
    /\ failed_at = 2
    /\ pc = "exit"
    /\ Len(opened) = 2
    /\ rasterized > 1
    /\ Len(written) = 2

\* the records of the PDF last opened, as the Line Parser emits them for
\* the lines of its pages: page by page, line by line, each with the
\* 1-based number of its page
RECURSIVE LineRecords(_, _)
LineRecords(lines, page) ==
    IF lines = <<>> THEN <<>>
    ELSE [n \in 1..Len(ParseLine(Head(lines), page - 1, columns)) |->
             [page |-> page, row |-> ParseLine(Head(lines), page - 1, columns)[n]]]
         \o LineRecords(Tail(lines), page)

RECURSIVE PageRecords(_, _)
PageRecords(texts, page) ==
    IF page > Len(texts) THEN <<>>
    ELSE LineRecords(SplitLines(texts[page]), page) \o PageRecords(texts, page + 1)

\* the values of a record under the columns given, Page left out
ValuesOf(row, cols) ==
    LET keep == SelectSeq(cols, LAMBDA c : c # "Page")
    IN  [j \in 1..Len(keep) |-> RowMap(row)[keep[j]]]

WithoutPage(header, cells) ==
    LET keep == SelectSeq([j \in 1..Len(header) |-> j], LAMBDA j : header[j] # "Page")
    IN  [n \in 1..Len(keep) |-> cells[keep[n]]]

PageCell(header, cells) == cells[CHOOSE j \in 1..Len(header) : header[j] = "Page"]

\* the processing of the PDF last opened is over, with every page of it
\* rasterized and recognized
LastPdfOver ==
    /\ pc \in {"loop", "exit"}
    /\ opened # <<>>
    /\ failed_at # Len(opened)

\* what C8 says of the PDF last opened, with `expected` its records
DocumentResultWritten(expected) ==
    LET name == opened[Len(opened)]
        csv == files[CsvFile(name)]
        xlsx == files[ExcelFile(name)]
    IN  /\ CsvFile(name) \in Written
        /\ Len(csv.body) = Len(expected)
        /\ \A j \in 1..Len(expected) :
              /\ ReadInt(PageCell(csv.header, csv.body[j])) = expected[j].page
              /\ RowMap(expected[j].row).Page = expected[j].page
              /\ WithoutPage(csv.header, csv.body[j])
                 = ValuesOf(expected[j].row, csv.header)
        /\ ExcelFile(name) \in Written
        /\ "Page" \notin { xlsx.header[j] : j \in 1..Len(xlsx.header) }
        /\ Len(xlsx.body) = Len(expected)
        /\ \A j \in 1..Len(expected) :
              xlsx.body[j] = WithoutPage(csv.header, csv.body[j])

\* C8: the Document Result written for a PDF holds exactly the records the
\* Line Parser emits for the lines of that PDF's pages, in page then line
\* order, each with its 1-based page number: N rows in the CSV with those
\* Page values, the same N rows without Page in the XLSX.
C8_DocumentResult ==
    LastPdfOver => DocumentResultWritten(PageRecords(recognized, 1))

\* the statement of C8 for the PDFs that yield at least one record
C8_WhenRecordsExist ==
    (LastPdfOver /\ PageRecords(recognized, 1) # <<>>) =>
        DocumentResultWritten(PageRecords(recognized, 1))

=============================================================================
